---- MODULE Spec2Model ----
(***************************************************************************)
(* autobuild.py: pull each configured git module, rebuild and upload the   *)
(* ones whose commit differs from the cached one, record the commit, run   *)
(* the remote post hook and mail the accumulated errors.                   *)
(*                                                                         *)
(* One action per step of run(); every call of execute() is a choice       *)
(* between exit status zero and a CalledProcessError.  An exception that   *)
(* no handler of run() catches ends the process: pc = "aborted" and raised *)
(* names the exception.                                                    *)
(***************************************************************************)
EXTENDS Integers, Sequences, FiniteSets, TLC

\* ---- bounds -------------------------------------------------------------
NumModules == 2
MaxCommit == 2
MaxCalls == 3
MaxPomLen == 6

\* ---- inputs -------------------------------------------------------------
ModuleNames == <<"mod1", "mod2", "mod3", "mod4">>

\* config.get('config', 'modules').split(',')
modules == SubSeq(ModuleNames, 1, NumModules)

Modules == {modules[i] : i \in 1..Len(modules)}

\* commit hashes, numbered in history order
Commits == 1..MaxCommit

\* the keys of the global section the program reads unconditionally
GlobalKeys == {"user", "host", "remote", "modules", "cache", "log"}

\* the list of check_config
required == <<"user", "host", "remote", "modules", "cache">>

\* the configurations considered: at most one global key missing
MissingChoices == {{}} \cup {{k} : k \in GlobalKeys}

VARIABLES
    config,        \* the parsed configuration file
    pc,            \* position of run()
    idx,           \* index in modules of the module of the for loop
    errors,        \* the list errors of run(): <<kind, module>> per message
    cache_exists,  \* os.path.exists(cache_path)
    cache,         \* the cache file: section name -> value of 'commit'
    head,          \* the commit git log reports for each module's repository
    log_open,      \* execution_log is an open file
    mail,          \* the messages handed to sendmail, each the errors it lists
    raised,        \* the exception that ended the run, "none" otherwise
    next_run,      \* FALSE in a first invocation, TRUE in the one that follows it
    \* history of the current run
    trail,         \* <<step, ok>> of every step taken for the current module,
                   \* and of the hook once the loop has ended
    pulls,         \* the modules whose fetch was started, in order
    pre_fetch,     \* module -> its commit when its fetch was started, 0 before
    pull_failed,   \* modules whose fetch or merge exited non-zero
    pipe_failed,   \* modules whose clean, build, upload or record raised
    checked,       \* module -> what has_changed saw and returned
    cache0,        \* the cache file's content when the run started
    writes,        \* the modules for which the cache file was written, in order
    \* history of the previous run
    prev_failed,   \* modules that failed at clean, build or upload in it
    prev_cache,    \* the cache file's content when it started
    \* execute(), statement by statement
    execution_log, \* the content of the log file, in order
    ex_pc,         \* position of execute()
    ex_args,       \* the argument list of the call in progress
    ex_result,     \* what the last call gave its caller
    ex_calls,      \* number of calls of execute()
    ex_started,    \* number of child processes started
    ex_exit,       \* the last child that exited and whether its status was zero
    ex_buffer,     \* written to the log file object, not yet in the file
    \* get_jar_name()
    pom,           \* the text of pom.xml, token by token
    pom_pc,        \* "start", then "returned" or "raised"
    jar            \* the name get_jar_name returned

vars == <<config, pc, idx, errors, cache_exists, cache, head, log_open, mail,
          raised, next_run, trail, pulls, pre_fetch, pull_failed, pipe_failed, checked,
          cache0, writes, prev_failed, prev_cache,
          execution_log, ex_pc, ex_args, ex_result, ex_calls, ex_started,
          ex_exit, ex_buffer, pom, pom_pc, jar>>

\* the variables of run()
runvars == <<config, pc, idx, errors, cache_exists, cache, head, log_open, mail,
             raised, next_run, trail, pulls, pre_fetch, pull_failed, pipe_failed,
             checked, cache0, writes, prev_failed, prev_cache>>

\* the variables of execute() taken statement by statement
execvars == <<execution_log, ex_pc, ex_args, ex_result, ex_calls, ex_started,
              ex_exit, ex_buffer>>

\* the variables of get_jar_name()
pomvars == <<pom, pom_pc, jar>>

\* what no step of run() changes: in run() a call of execute() and a call of
\* get_jar_name() are single steps
cfgvars == <<config, next_run, prev_failed, prev_cache, cache0,
             execvars, pomvars>>

\* the module of the current iteration of the for loop
module == modules[idx]

NotChecked == [seen |-> FALSE, cached |-> 0, current |-> 0, result |-> FALSE]

\* the state of run() when it is entered, and an empty history
Start ==
    /\ pc = "check_config"
    /\ idx = 1
    /\ errors = <<>>
    /\ log_open = FALSE
    /\ mail = <<>>
    /\ raised = "none"
    /\ next_run = FALSE
    /\ trail = <<>>
    /\ pulls = <<>>
    /\ pre_fetch = [m \in Modules |-> 0]
    /\ pull_failed = {}
    /\ pipe_failed = {}
    /\ checked = [m \in Modules |-> NotChecked]
    /\ cache0 = cache
    /\ writes = <<>>
    /\ prev_failed = {}
    /\ prev_cache = <<>>

\* no call of execute() has been made
ExecStart ==
    /\ execution_log = <<>>
    /\ ex_pc = "idle"
    /\ ex_args = ""
    /\ ex_result = [kind |-> "none", args |-> "", text |-> <<>>]
    /\ ex_calls = 0
    /\ ex_started = 0
    /\ ex_exit = [args |-> "", ok |-> TRUE]
    /\ ex_buffer = <<>>

\* no call of get_jar_name() has been made
PomStart ==
    /\ pom_pc = "start"
    /\ jar = <<>>

\* one invocation: any configuration, any cache file (absent, or with a
\* commit for any of the modules), every repository at its first commit
Init ==
    /\ config \in [missing : MissingChoices, nopath : SUBSET Modules,
                   rpost : BOOLEAN, email : BOOLEAN]
    /\ cache_exists \in BOOLEAN
    /\ \E S \in SUBSET Modules :
          /\ cache \in [S -> Commits]
          /\ (~cache_exists => S = {})
    /\ head = [m \in Modules |-> 1]
    /\ Start
    /\ ExecStart
    /\ pom = <<>>
    /\ PomStart

\* two invocations in a row: a complete configuration without hook and
\* mail, and a cache file that is absent or holds one commit for every module
InitRuns ==
    /\ config = [missing |-> {}, nopath |-> {}, rpost |-> FALSE, email |-> FALSE]
    /\ \/ cache_exists = FALSE /\ cache = <<>>
       \/ cache_exists = TRUE /\ \E c \in Commits : cache = [m \in Modules |-> c]
    /\ head = [m \in Modules |-> 1]
    /\ Start
    /\ ExecStart
    /\ pom = <<>>
    /\ PomStart

\* ---- helpers ------------------------------------------------------------

\* an exception leaves run(): nothing after the raising statement executes
Raise(e) ==
    /\ pc' = "aborted"
    /\ raised' = e

\* a mutant of NextModule: the iteration is started again for the same module
NextModule_again ==
    /\ trail' = <<>>
    /\ idx' = idx
    /\ pc' = "check_module_config"

\* the for loop moves to its next module, or ends
NextModule ==
    /\ trail' = <<>>
    /\ IF idx < Len(modules)
          THEN /\ idx' = idx + 1
               /\ pc' = "check_module_config"
          ELSE /\ idx' = idx
               /\ pc' = "hook"

\* get_commit: the output of git log -n 1 --pretty=format:%H
get_commit(m) == head[m]

\* a mutant of has_changed: every module is rebuilt in every run
has_changed_always(m) == TRUE

\* a mutant of has_changed: without a cache file nothing is rebuilt
has_changed_nofile(m) ==
    IF cache_exists
       THEN IF ~(m \in DOMAIN cache)
               THEN TRUE
               ELSE IF cache[m] = get_commit(m) THEN FALSE ELSE TRUE
       ELSE FALSE

\* has_changed, given that its git log exits zero
has_changed(m) ==
    IF cache_exists
       THEN IF ~(m \in DOMAIN cache)
               THEN TRUE
               ELSE IF cache[m] = get_commit(m) THEN FALSE ELSE TRUE
       ELSE TRUE

\* a mutant of update_cache: the commit is set only in a new section
update_cache_new_only(m) ==
    [s \in (DOMAIN cache) \cup {m} |->
        IF s \in DOMAIN cache THEN cache[s] ELSE get_commit(m)]

\* a mutant of update_cache: the old file is not read before it is rewritten
update_cache_fresh(m) == [s \in {m} |-> get_commit(m)]

\* the cache file update_cache writes, given that its git log exits zero
update_cache(m) ==
    [s \in (DOMAIN cache) \cup {m} |-> IF s = m THEN get_commit(m) ELSE cache[s]]

\* a mutant of PullHandler: the except clause forgets the message
PullHandler_silent(m) == errors

\* except subprocess.CalledProcessError of the pull
PullHandler(m) == Append(errors, <<"pull", m>>)

\* a mutant of BuildHandler: the message is put in front of the list
BuildHandler_prepend(m) == <<<<"build", m>>>> \o errors

\* except subprocess.CalledProcessError of the build pipeline
BuildHandler(m) == Append(errors, <<"build", m>>)

\* a mutant of StepAfter: update_cache is called before upload
StepAfter_record_early(step) ==
    CASE step = "clean" -> "build"
      [] step = "build" -> "update_cache"
      [] step = "get_jar_name" -> "scp"
      [] step = "scp" -> "update_cache"

\* the statement of the try block that follows a statement that returned
StepAfter(step) ==
    CASE step = "clean" -> "build"
      [] step = "build" -> "get_jar_name"
      [] step = "get_jar_name" -> "scp"
      [] step = "scp" -> "update_cache"

\* a mutant of PullFails: the except clause ends the iteration (continue)
PullFails_continue(step) ==
    /\ errors' = PullHandler(module)
    /\ pull_failed' = pull_failed \cup {module}
    /\ NextModule

\* fetch or merge exits non-zero: the handler runs and run() goes on with
\* the change check of the same module
PullFails(step) ==
    /\ errors' = PullHandler(module)
    /\ pull_failed' = pull_failed \cup {module}
    /\ trail' = Append(trail, <<step, FALSE>>)
    /\ pc' = "has_changed"
    /\ idx' = idx

\* a mutant of BuildFails: the commit is recorded although the pipeline failed
BuildFails_records(step) ==
    /\ errors' = BuildHandler(module)
    /\ pipe_failed' = pipe_failed \cup {module}
    /\ cache' = update_cache(module)
    /\ cache_exists' = TRUE
    /\ writes' = writes
    /\ NextModule

\* a step of the try block exits non-zero: the handler runs, the rest of the
\* block is skipped and the loop goes on
BuildFails(step) ==
    /\ errors' = BuildHandler(module)
    /\ pipe_failed' = pipe_failed \cup {module}
    /\ UNCHANGED <<cache, cache_exists, writes>>
    /\ NextModule

\* a step of the try block returns
StepOk(step, name) ==
    /\ pc' = StepAfter(step)
    /\ trail' = Append(trail, <<name, TRUE>>)
    /\ UNCHANGED <<idx, errors, pipe_failed, cache, cache_exists, writes>>

\* ---- run(): configuration and log ---------------------------------------

CheckConfig ==
    /\ pc = "check_config"
    /\ IF \E i \in 1..Len(required) : required[i] \in config.missing
          THEN Raise("ConfigurationError")
          ELSE pc' = "open_log" /\ raised' = raised
    /\ UNCHANGED <<idx, errors, cache_exists, cache, head, log_open, mail,
                   trail, pulls, pre_fetch, pull_failed, pipe_failed, checked, writes>>
    /\ UNCHANGED cfgvars

OpenLog ==
    /\ pc = "open_log"
    /\ IF "log" \in config.missing
          THEN Raise("NoOptionError") /\ log_open' = log_open
          ELSE pc' = "check_module_config" /\ raised' = raised /\ log_open' = TRUE
    /\ UNCHANGED <<idx, errors, cache_exists, cache, head, mail,
                   trail, pulls, pre_fetch, pull_failed, pipe_failed, checked, writes>>
    /\ UNCHANGED cfgvars

CheckModuleConfig ==
    /\ pc = "check_module_config"
    /\ IF module \in config.nopath
          THEN Raise("ConfigurationError")
          ELSE pc' = "fetch" /\ raised' = raised
    /\ UNCHANGED <<idx, errors, cache_exists, cache, head, log_open, mail,
                   trail, pulls, pre_fetch, pull_failed, pipe_failed, checked, writes>>
    /\ UNCHANGED cfgvars

\* ---- run(): pull --------------------------------------------------------

Fetch ==
    /\ pc = "fetch"
    /\ pulls' = Append(pulls, module)
    /\ pre_fetch' = [pre_fetch EXCEPT ![module] = head[module]]
    /\ \E ok \in BOOLEAN :
          IF ok
             THEN /\ pc' = "merge"
                  /\ trail' = Append(trail, <<"fetch", TRUE>>)
                  /\ UNCHANGED <<idx, errors, pull_failed>>
             ELSE PullFails("fetch")
    /\ UNCHANGED <<cache_exists, cache, head, log_open, mail, raised,
                   pipe_failed, checked, writes>>
    /\ UNCHANGED cfgvars

\* a merge that succeeds leaves the repository at its commit or at a later one
Merge ==
    /\ pc = "merge"
    /\ \E ok \in BOOLEAN :
          IF ok
             THEN /\ pc' = "has_changed"
                  /\ trail' = Append(trail, <<"merge", TRUE>>)
                  /\ \E c \in Commits :
                        /\ c >= head[module]
                        /\ head' = [head EXCEPT ![module] = c]
                  /\ UNCHANGED <<idx, errors, pull_failed>>
             ELSE /\ PullFails("merge")
                  /\ head' = head
    /\ UNCHANGED <<cache_exists, cache, log_open, mail, raised,
                   pulls, pre_fetch, pipe_failed, checked, writes>>
    /\ UNCHANGED cfgvars

\* ---- run(): change check ------------------------------------------------

\* git log runs only when the cache file has a section of the module; its
\* CalledProcessError is raised outside of every try block of run()
HasChanged ==
    /\ pc = "has_changed"
    /\ \E ok \in BOOLEAN :
          /\ (~(cache_exists /\ module \in DOMAIN cache) => ok)
          /\ IF ~ok
                THEN /\ Raise("CalledProcessError")
                     /\ trail' = Append(trail, <<"has_changed", FALSE>>)
                     /\ UNCHANGED <<idx, checked>>
                ELSE /\ raised' = raised
                     /\ checked' = [checked EXCEPT ![module] =
                           [seen |-> TRUE,
                            cached |-> IF cache_exists /\ module \in DOMAIN cache
                                          THEN cache[module] ELSE 0,
                            current |-> head[module],
                            result |-> has_changed(module)]]
                     /\ IF has_changed(module)
                           THEN /\ pc' = "clean"
                                /\ idx' = idx
                                /\ trail' = Append(trail, <<"has_changed", TRUE>>)
                           ELSE NextModule
    /\ UNCHANGED <<errors, cache_exists, cache, head, log_open, mail,
                   pulls, pre_fetch, pull_failed, pipe_failed, writes>>
    /\ UNCHANGED cfgvars

\* ---- run(): build pipeline ----------------------------------------------

Clean ==
    /\ pc = "clean"
    /\ \E ok \in BOOLEAN :
          IF ok THEN StepOk("clean", "clean") ELSE BuildFails("clean")
    /\ UNCHANGED <<head, log_open, mail, raised,
                   pulls, pre_fetch, pull_failed, checked>>
    /\ UNCHANGED cfgvars

Build ==
    /\ pc = "build"
    /\ \E ok \in BOOLEAN :
          IF ok THEN StepOk("build", "build") ELSE BuildFails("build")
    /\ UNCHANGED <<head, log_open, mail, raised,
                   pulls, pre_fetch, pull_failed, checked>>
    /\ UNCHANGED cfgvars

\* upload, first half: the artifact name is read from pom.xml.  A descriptor
\* without a one-line artifactId or version tag makes re.search return None
\* and .group raise AttributeError, which the handler of run() does not catch.
GetJarName ==
    /\ pc = "get_jar_name"
    /\ \E ok \in BOOLEAN :
          IF ok
             THEN /\ StepOk("get_jar_name", "get_jar_name")
                  /\ raised' = raised
             ELSE /\ Raise("AttributeError")
                  /\ trail' = Append(trail, <<"get_jar_name", FALSE>>)
                  /\ pipe_failed' = pipe_failed \cup {module}
                  /\ UNCHANGED <<idx, errors, cache, cache_exists, writes>>
    /\ UNCHANGED <<head, log_open, mail,
                   pulls, pre_fetch, pull_failed, checked>>
    /\ UNCHANGED cfgvars

\* upload, second half: scp of the jar
Scp ==
    /\ pc = "scp"
    /\ \E ok \in BOOLEAN :
          IF ok THEN StepOk("scp", "upload") ELSE BuildFails("upload")
    /\ UNCHANGED <<head, log_open, mail, raised,
                   pulls, pre_fetch, pull_failed, checked>>
    /\ UNCHANGED cfgvars

\* record: git log, then the whole cache file is rewritten
UpdateCache ==
    /\ pc = "update_cache"
    /\ \E ok \in BOOLEAN :
          IF ok
             THEN /\ cache' = update_cache(module)
                  /\ cache_exists' = TRUE
                  /\ writes' = Append(writes, module)
                  /\ NextModule
                  /\ UNCHANGED <<errors, pipe_failed>>
             ELSE BuildFails("record")
    /\ UNCHANGED <<head, log_open, mail, raised, pulls, pre_fetch, pull_failed,
                   checked>>
    /\ UNCHANGED cfgvars

\* ---- run(): hook and report ---------------------------------------------

Hook ==
    /\ pc = "hook"
    /\ pc' = "report"
    /\ IF config.rpost
          THEN \E ok \in BOOLEAN :
                  /\ errors' = IF ok THEN errors ELSE Append(errors, <<"hook", "">>)
                  /\ trail' = Append(trail, <<"hook", ok>>)
          ELSE UNCHANGED <<errors, trail>>
    /\ UNCHANGED <<idx, cache_exists, cache, head, log_open, mail, raised,
                   pulls, pre_fetch, pull_failed, pipe_failed, checked, writes>>
    /\ UNCHANGED cfgvars

\* send_mail returns at once without an email section; with one, the SMTP
\* exchange delivers the message or raises
Report ==
    /\ pc = "report"
    /\ IF Len(errors) > 0 /\ config.email
          THEN \E ok \in BOOLEAN :
                  IF ok
                     THEN /\ mail' = Append(mail, errors)
                          /\ pc' = "close"
                          /\ raised' = raised
                     ELSE /\ Raise("SMTPException")
                          /\ mail' = mail
          ELSE /\ pc' = "close"
               /\ UNCHANGED <<mail, raised>>
    /\ UNCHANGED <<idx, errors, cache_exists, cache, head, log_open,
                   trail, pulls, pre_fetch, pull_failed, pipe_failed, checked, writes>>
    /\ UNCHANGED cfgvars

CloseLog ==
    /\ pc = "close"
    /\ pc' = "done"
    /\ log_open' = FALSE
    /\ UNCHANGED <<idx, errors, cache_exists, cache, head, mail, raised,
                   trail, pulls, pre_fetch, pull_failed, pipe_failed, checked, writes>>
    /\ UNCHANGED cfgvars

\* ---- the next invocation ------------------------------------------------

\* the script is started again with the same configuration file; the
\* repositories and the cache file are as the previous run left them
NextRun ==
    /\ pc \in {"done", "aborted"}
    /\ ~next_run
    /\ next_run' = TRUE
    /\ pc' = "check_config"
    /\ idx' = 1
    /\ errors' = <<>>
    /\ log_open' = FALSE
    /\ mail' = <<>>
    /\ raised' = "none"
    /\ trail' = <<>>
    /\ pulls' = <<>>
    /\ pre_fetch' = [m \in Modules |-> 0]
    /\ pull_failed' = {}
    /\ pipe_failed' = {}
    /\ checked' = [m \in Modules |-> NotChecked]
    /\ writes' = <<>>
    /\ cache0' = cache
    /\ prev_failed' = pipe_failed
    /\ prev_cache' = cache0
    /\ UNCHANGED <<config, cache_exists, cache, head, execvars, pomvars>>

Next ==
    \/ CheckConfig
    \/ OpenLog
    \/ CheckModuleConfig
    \/ Fetch
    \/ Merge
    \/ HasChanged
    \/ Clean
    \/ Build
    \/ GetJarName
    \/ Scp
    \/ UpdateCache
    \/ Hook
    \/ Report
    \/ CloseLog

\* one invocation of the script
Spec == Init /\ [][Next]_vars

\* one invocation in which every external command returns and the
\* interpreter goes on to the next statement as long as there is one
SpecFair == Init /\ [][Next]_vars /\ WF_vars(Next)

NextRuns ==
    \/ Next
    \/ NextRun

\* an invocation and the one that follows it
SpecRuns == InitRuns /\ [][NextRuns]_vars

\* ---- execute(), statement by statement -----------------------------------

\* the commands run() has execute() start
Commands == {"git", "mvn", "scp"}

\* the run() variables before any invocation, for the specifications of one
\* function
NoRun ==
    /\ config = [missing |-> {}, nopath |-> {}, rpost |-> FALSE, email |-> FALSE]
    /\ cache_exists = FALSE
    /\ cache = <<>>
    /\ head = [m \in Modules |-> 1]
    /\ Start

InitExec ==
    /\ NoRun
    /\ ExecStart
    /\ pom = <<>>
    /\ PomStart

\* the text execute() writes first: the command line
CommandLine(args) == <<"Execute", args>>

\* what the child printed on its standard output
Output(args) == <<"output", args>>

\* mutant: the command line is not written
ExecuteLog_unlogged ==
    /\ ex_pc = "idle"
    /\ ex_calls < MaxCalls
    /\ \E args \in Commands :
        /\ ex_args' = args
        /\ ex_buffer' = ex_buffer
    /\ ex_calls' = ex_calls + 1
    /\ ex_pc' = "logged"
    /\ UNCHANGED <<execution_log, ex_result, ex_started, ex_exit>>
    /\ UNCHANGED <<runvars, pomvars>>

\* execute is called and writes the command line to the log file object
ExecuteLog ==
    /\ ex_pc = "idle"
    /\ ex_calls < MaxCalls
    /\ \E args \in Commands :
        /\ ex_args' = args
        /\ ex_buffer' = Append(ex_buffer, CommandLine(args))
    /\ ex_calls' = ex_calls + 1
    /\ ex_pc' = "logged"
    /\ UNCHANGED <<execution_log, ex_result, ex_started, ex_exit>>
    /\ UNCHANGED <<runvars, pomvars>>

\* the file object writes what it holds to the file (its buffer is full, or
\* the file is closed)
ExecuteFlush ==
    /\ ex_buffer # <<>>
    /\ execution_log' = execution_log \o ex_buffer
    /\ ex_buffer' = <<>>
    /\ UNCHANGED <<ex_pc, ex_args, ex_result, ex_calls, ex_started, ex_exit>>
    /\ UNCHANGED <<runvars, pomvars>>

\* check_output starts the child; a command that cannot be started raises
\* OSError, which execute does not handle
ExecuteSpawn ==
    /\ ex_pc = "logged"
    /\ \E found \in BOOLEAN :
        IF found
        THEN /\ ex_pc' = "running"
             /\ ex_started' = ex_started + 1
             /\ UNCHANGED ex_result
        ELSE /\ ex_pc' = "idle"
             /\ ex_result' = [kind |-> "OSError", args |-> ex_args, text |-> <<>>]
             /\ UNCHANGED ex_started
    /\ UNCHANGED <<execution_log, ex_buffer, ex_args, ex_calls, ex_exit>>
    /\ UNCHANGED <<runvars, pomvars>>

\* the child exits; it may have written to its standard error, which is the
\* log file itself. Status zero: the output is returned. Else the output is
\* written to the log and the CalledProcessError is raised again.
ExecuteExit ==
    /\ ex_pc = "running"
    /\ \E ok \in BOOLEAN, err \in BOOLEAN :
        /\ ex_exit' = [args |-> ex_args, ok |-> ok]
        /\ execution_log' = IF err THEN Append(execution_log, <<"stderr", ex_args>>)
                                    ELSE execution_log
        /\ IF ok
           THEN /\ ex_result' = [kind |-> "returned", args |-> ex_args,
                                  text |-> Output(ex_args)]
                /\ UNCHANGED ex_buffer
           ELSE /\ ex_buffer' = Append(ex_buffer, Output(ex_args))
                /\ ex_result' = [kind |-> "CalledProcessError", args |-> ex_args,
                                  text |-> Output(ex_args)]
    /\ ex_pc' = "idle"
    /\ UNCHANGED <<ex_args, ex_calls, ex_started>>
    /\ UNCHANGED <<runvars, pomvars>>

NextExec == ExecuteLog \/ ExecuteFlush \/ ExecuteSpawn \/ ExecuteExit

SpecExec == InitExec /\ [][NextExec]_vars

\* ---- get_pom_infos() and get_jar_name() ----------------------------------

\* the text of a pom.xml is a sequence of these: the four tags the two
\* patterns name, the end of a line, and two pieces of other text
Tokens == {"<artifactId>", "</artifactId>", "<version>", "</version>", "\n",
           "foo", "1.2"}

Descriptors == UNION {[1..n -> Tokens] : n \in 0..MaxPomLen}

InitPom ==
    /\ NoRun
    /\ ExecStart
    /\ pom \in Descriptors
    /\ PomStart

\* where '(.*)</close>' can end when the opening tag is at i: a closing tag
\* further on with no end of line in between ('.' matches no newline)
Ends(text, i, close) ==
    {j \in (i + 1)..Len(text) :
        /\ text[j] = close
        /\ \A k \in (i + 1)..(j - 1) : text[k] # "\n"}

\* re.search('<open>(.*)</close>', text): the leftmost opening tag that has a
\* match, and from it the longest match ('*' is greedy); None when there is
\* no match
search(open, close, text) ==
    LET starts == {i \in 1..Len(text) :
                      text[i] = open /\ Ends(text, i, close) # {}}
    IN  IF starts = {}
        THEN [found |-> FALSE, group |-> <<>>]
        ELSE LET i == CHOOSE x \in starts : \A y \in starts : x <= y
                 j == CHOOSE x \in Ends(text, i, close) :
                          \A y \in Ends(text, i, close) : y <= x
             IN  [found |-> TRUE, group |-> SubSeq(text, i + 1, j - 1)]

get_pom_infos(text) ==
    [artifactId |-> search("<artifactId>", "</artifactId>", text),
     version |-> search("<version>", "</version>", text)]

\* "%s-%s.jar" joined to "target/" and to the module's path
get_jar_name(text) ==
    <<"path/", "target/">> \o get_pom_infos(text).artifactId.group
        \o <<"-">> \o get_pom_infos(text).version.group \o <<".jar">>

\* get_jar_name is called on the descriptor: .group(1) of a search that
\* found nothing raises AttributeError
GetJarNameOfPom ==
    /\ pom_pc = "start"
    /\ IF /\ get_pom_infos(pom).artifactId.found
          /\ get_pom_infos(pom).version.found
       THEN /\ jar' = get_jar_name(pom)
            /\ pom_pc' = "returned"
       ELSE /\ pom_pc' = "raised"
            /\ UNCHANGED jar
    /\ UNCHANGED <<pom, runvars, execvars>>

NextPom == GetJarNameOfPom

SpecPom == InitPom /\ [][NextPom]_vars

TypeOK ==
    /\ pc \in {"check_config", "open_log", "check_module_config", "fetch",
               "merge", "has_changed", "clean", "build", "get_jar_name", "scp",
               "update_cache", "hook", "report", "close", "done", "aborted"}
    /\ idx \in 1..Len(modules)
    /\ DOMAIN cache \subseteq Modules
    /\ \A m \in DOMAIN cache : cache[m] \in Commits
    /\ (~cache_exists => DOMAIN cache = {})
    /\ head \in [Modules -> Commits]

\* ---- properties ---------------------------------------------------------

Range(q) == {q[i] : i \in 1..Len(q)}

IsPrefix(a, b) == Len(a) <= Len(b) /\ SubSeq(b, 1, Len(a)) = a

Count(q, x) == Cardinality({i \in 1..Len(q) : q[i] = x})

\* the positions of run() inside the try block of the build pipeline
Pipeline == {"clean", "build", "get_jar_name", "scp", "update_cache"}

\* clean, build, upload or record was started for m in this run
Attempted(m) ==
    \/ m \in pipe_failed
    \/ m \in Range(writes)
    \/ (module = m /\ pc \in Pipeline)

\* the cache entry of m in the file content f, 0 without a record
Entry(f, m) == IF m \in DOMAIN f THEN f[m] ELSE 0

\* the step starts a new invocation of the script
Restart == pc \in {"done", "aborted"} /\ pc' = "check_config"

\* the step writes the cache file
CacheWritten ==
    \/ cache' # cache
    \/ cache_exists' # cache_exists
    \/ Len(writes') > Len(writes)

\* the steps of the build pipeline that returned for the current module
PipelineSteps ==
    SelectSeq(trail, LAMBDA s : s[1] \in {"clean", "build", "upload"})

\* C1: the cache file is written only by update_cache of the current module,
\* and only after clean, build and upload of that module have returned
\* successfully, in that order, in the same run.
C1_CacheWrittenOnlyAfterUpload ==
    [][CacheWritten =>
          /\ pc = "update_cache"
          /\ PipelineSteps = <<<<"clean", TRUE>>, <<"build", TRUE>>,
                               <<"upload", TRUE>>>>
          /\ writes' = Append(writes, module)]_vars

C1_Witness == Len(writes) = Len(modules) /\ pc = "hook"

\* C2: every module whose clean, build, artifact naming or upload failed has
\* exactly one build message in errors, no later step of its pipeline is
\* running and its cache entry is the one the run started with.
C2_PipelineFailureIsRecorded ==
    \A m \in pipe_failed :
        /\ Count(errors, <<"build", m>>) = 1
        /\ ~(module = m /\ pc \in Pipeline)
        /\ Entry(cache, m) = Entry(cache0, m)

\* C3 as stated: no step of the build pipeline is reached for a module whose
\* pull failed.
C3_NoPipelineAfterPullFailure ==
    ~(module \in pull_failed /\ pc \in Pipeline)

\* C3 amended: a failing fetch or merge appends exactly one pull message and
\* run() goes on with the change check of the same module; the pipeline is
\* entered for a module whose pull failed when, and only when, the change
\* check has reported a change.
C3_PullFailureRecorded ==
    [][
          /\ (pc \in {"fetch", "merge"} /\ module \notin pull_failed
                                     /\ module \in pull_failed') =>
              /\ errors' = Append(errors, <<"pull", module>>)
              /\ pc' \in {"has_changed"}
          /\ (module \in pull_failed /\ pc \in Pipeline) =>
              (checked[module].seen /\ checked[module].result)
          /\ (module \in pull_failed /\ pc = "has_changed"
                 /\ checked'[module].seen) =>
              (checked'[module].result <=> (pc' = "clean" /\ idx' = idx))]_vars

C3_Witness ==
    /\ pc = "clean"
    /\ module \in pull_failed
    /\ Count(errors, <<"pull", module>>) = 1

\* C4: after a failing pull the change check of the same module is the next
\* step, it compares the cache with the commit the repository had before the
\* fetch, and when it reports a change the next step is clean of that module.
C4_ChangeCheckAfterPullFailure ==
    [][
          /\ (pc \in {"fetch", "merge"} /\ module \in pull_failed') =>
              (pc' = "has_changed" /\ idx' = idx)
          /\ \A m \in pull_failed :
              checked[m].seen => checked[m].current = pre_fetch[m]
          /\ (pc = "has_changed" /\ module \in pull_failed
                 /\ checked'[module].seen /\ checked'[module].result) =>
              (pc' = "clean" /\ idx' = idx)]_vars

C4_Witness ==
    /\ pc = "build"
    /\ module \in pull_failed
    /\ checked[module].current = pre_fetch[module]
    /\ checked[module].cached # 0

\* C5: no non-zero exit of an external command ends the run, and when the
\* module loop has ended every module of the list has had its pull started
\* exactly once, in list order.
C5_CommandFailureNeverAborts ==
    /\ raised # "CalledProcessError"
    /\ (pc \in {"hook", "report", "close", "done"} => pulls = modules)

\* C6: when update_cache returns for module M, the cache file exists and its
\* entry of M is the current commit of M, and it still is for every module
\* recorded in this run.
C6_RecordedCommitIsCurrent ==
    [][
          /\ (pc = "update_cache" /\ errors' = errors /\ ~Restart) =>
              /\ cache_exists'
              /\ Entry(cache', module) = head[module]
          /\ \A m \in Range(writes) :
              cache_exists /\ Entry(cache, m) = head[m]]_vars

C6_Witness ==
    \E m \in Range(writes) : Entry(cache, m) > 1 /\ Entry(cache0, m) = 1

\* C7: a module whose cached commit equals its current commit at the change
\* check gets the answer false, and clean, build, upload and record are not
\* started for it in this run.
C7_UnchangedModuleIsSkipped ==
    \A m \in Modules :
        (checked[m].seen /\ checked[m].cached = checked[m].current) =>
            /\ ~checked[m].result
            /\ ~Attempted(m)
            /\ Entry(cache, m) = Entry(cache0, m)

C7_Witness ==
    /\ pc = "done"
    /\ \E m \in Modules : checked[m].seen /\ checked[m].cached = checked[m].current

\* C8: whenever has_changed returns, it returns true exactly when the cache
\* has no record of the module (no file, or no section) or the cached commit
\* differs from the current one.
C8_HasChangedResult ==
    \A m \in Modules :
        checked[m].seen =>
            (checked[m].result <=>
                (checked[m].cached = 0 \/ checked[m].cached # checked[m].current))

C8_Witness ==
    \E m, n \in Modules :
        /\ checked[m].seen /\ checked[m].cached = 0 /\ checked[m].result
        /\ checked[n].seen /\ checked[n].cached # 0 /\ ~checked[n].result

\* C9: a module that failed at clean, build or upload in the previous run and
\* whose current commit differs from the commit cached before that run gets
\* the answer true from the change check of this run, and its pipeline is
\* started again.
C9_FailedModuleIsRetried ==
    \A m \in Modules :
        (next_run /\ m \in prev_failed /\ checked[m].seen
                  /\ checked[m].current # Entry(prev_cache, m)) =>
            /\ checked[m].result
            /\ Attempted(m)

C9_Witness ==
    /\ next_run
    /\ pc = "build"
    /\ module \in prev_failed
    /\ checked[module].seen
    /\ Entry(prev_cache, module) # 0

\* the messages the failures of the first n modules must have left
RECURSIVE ExpectedErrors(_)
ExpectedErrors(n) ==
    IF n = 0
       THEN <<>>
       ELSE ExpectedErrors(n - 1)
            \o (IF modules[n] \in pull_failed
                   THEN <<<<"pull", modules[n]>>>> ELSE <<>>)
            \o (IF modules[n] \in pipe_failed
                   THEN <<<<"build", modules[n]>>>> ELSE <<>>)

\* C10: when the module loop has ended, errors is the list, in module order,
\* of one pull message per module whose pull failed followed by one build
\* message per module whose pipeline failed; within a run every step leaves
\* the old list as a prefix of the new one.
C10_ErrorsAccumulate ==
    [][
          /\ (pc = "hook" => errors = ExpectedErrors(Len(modules)))
          /\ (~Restart => IsPrefix(errors, errors'))]_vars

C10_Witness ==
    /\ pc = "hook"
    /\ Len(errors) >= 3
    /\ errors[1] = <<"pull", modules[1]>>
    /\ errors[2] = <<"build", modules[1]>>

\* the run has ended, by returning from run() or by an exception
Ended == pc \in {"done", "aborted"}

\* C11: when the run has ended, a report has been handed to the mail server
\* exactly when errors is not empty and an email section is configured (a
\* run whose SMTP exchange itself raised is left aside).
C11_MailIffErrors ==
    (Ended /\ raised # "SMTPException") =>
        (Len(mail) > 0 <=> (Len(errors) > 0 /\ config.email))

\* C12: in a run whose configuration passes the checks, a configured remote
\* post hook has been executed exactly once when the run has ended.
C12_HookRunsOnce ==
    (Ended /\ config.rpost
           /\ raised \notin {"ConfigurationError", "NoOptionError"}) =>
        Cardinality({i \in 1..Len(trail) : trail[i][1] = "hook"}) = 1

\* C13: with a required global key missing, the run does not get past
\* check_config: it ends with a ConfigurationError, the log is not opened
\* and no module is pulled.
C13_MissingKeyIsConfigurationError ==
    config.missing # {} =>
        \/ pc = "check_config"
        \/ (pc = "aborted" /\ raised = "ConfigurationError"
                           /\ ~log_open /\ pulls = <<>>)

\* C14: when a ConfigurationError has been raised, no command has been
\* executed for any module and the cache file has not been written.
C14_ConfigurationErrorBeforeModules ==
    raised = "ConfigurationError" => (pulls = <<>> /\ writes = <<>>)

\* C17: when the run has ended, on whatever path, the log is closed.
C17_LogClosedAtEnd ==
    Ended => ~log_open

\* C18: a step of update_cache for the current module leaves the cache
\* entry of every other section as it was: the same sections exist and they
\* hold the same commits.
C18_UpdateCacheFrame ==
    [][pc = "update_cache" =>
          \A m \in (DOMAIN cache \cup DOMAIN cache') \ {module} :
              /\ m \in DOMAIN cache
              /\ m \in DOMAIN cache'
              /\ cache'[m] = cache[m]]_vars

C18_Witness ==
    /\ Len(writes) = 1
    /\ \E m \in DOMAIN cache :
          /\ m \notin Range(writes)
          /\ m \in DOMAIN cache0
          /\ cache[m] = cache0[m]
          /\ cache[m] # cache[writes[1]]

\* the position of a statement in the text of run()
Rank(p) ==
    CASE p = "check_config" -> 1
      [] p = "open_log" -> 2
      [] p = "check_module_config" -> 3
      [] p = "fetch" -> 4
      [] p = "merge" -> 5
      [] p = "has_changed" -> 6
      [] p = "clean" -> 7
      [] p = "build" -> 8
      [] p = "get_jar_name" -> 9
      [] p = "scp" -> 10
      [] p = "update_cache" -> 11
      [] p = "hook" -> 12
      [] p = "report" -> 13
      [] p = "close" -> 14
      [] p = "done" -> 15
      [] p = "aborted" -> 16

CommandLines(q) == Cardinality({i \in 1..Len(q) : q[i][1] = "Execute"})

\* C15: execute writes the command line to the execution log before it
\* starts the child process, whether the command then succeeds or fails (the
\* line is the last thing written when a child starts, and every call has
\* written one); when the child exits with a non-zero status the caller gets
\* the CalledProcessError of that command with the captured output.
C15_CommandLineLoggedFirst ==
    [][/\ ex_started' > ex_started =>
             /\ ex_buffer # <<>> \/ execution_log # <<>>
             /\ (execution_log \o ex_buffer)[Len(execution_log) + Len(ex_buffer)]
                    = CommandLine(ex_args)
             /\ CommandLines(execution_log \o ex_buffer) = ex_calls
       /\ (ex_pc = "running" /\ ex_pc' = "idle") =>
             /\ CommandLines(execution_log' \o ex_buffer') = ex_calls
             /\ ex_exit'.ok =>
                    ex_result' = [kind |-> "returned", args |-> ex_args,
                                  text |-> Output(ex_args)]
             /\ ~ex_exit'.ok =>
                    ex_result' = [kind |-> "CalledProcessError", args |-> ex_args,
                                  text |-> Output(ex_args)]]_vars

\* two children have run, the last one failed, and a child wrote to its
\* standard error
C15_Witness ==
    /\ ex_started = 2
    /\ ex_pc = "idle"
    /\ ex_result.kind = "CalledProcessError"
    /\ CommandLines(execution_log \o ex_buffer) = 2
    /\ \E i \in 1..Len(execution_log) : execution_log[i][1] = "stderr"

\* the descriptor has an opening tag with its closing tag further on
HasTag(open, close, text) ==
    \E i \in 1..Len(text) : \E j \in (i + 1)..Len(text) :
        text[i] = open /\ text[j] = close

\* the content of the first such tag: from the first opening tag that is
\* closed to the first closing tag after it
FirstValue(open, close, text) ==
    LET i == CHOOSE x \in 1..Len(text) :
                 /\ text[x] = open
                 /\ \E j \in (x + 1)..Len(text) : text[j] = close
                 /\ \A y \in 1..(x - 1) :
                        ~(text[y] = open /\ \E j \in (y + 1)..Len(text) : text[j] = close)
        j == CHOOSE x \in (i + 1)..Len(text) :
                 /\ text[x] = close
                 /\ \A y \in (i + 1)..(x - 1) : text[y] # close
    IN  SubSeq(text, i + 1, j - 1)

\* C16: for every build descriptor that has an artifactId tag and a version
\* tag, get_jar_name gives <artifactId>-<version>.jar under the module's
\* target directory, where the two values are the contents of the first
\* artifactId tag and of the first version tag.
C16_JarNameFromFirstTags ==
    (/\ pom_pc # "start"
     /\ HasTag("<artifactId>", "</artifactId>", pom)
     /\ HasTag("<version>", "</version>", pom)) =>
        /\ pom_pc = "returned"
        /\ jar = <<"path/", "target/">>
                    \o FirstValue("<artifactId>", "</artifactId>", pom) \o <<"-">>
                    \o FirstValue("<version>", "</version>", pom) \o <<".jar">>

====
